---- MODULE Spec2Model ----
(***************************************************************************)
(* A model of kiyoi's sealed-cookie session module (src/src/nextjs.ts):    *)
(* Session.create / get / save / destroy / validate / touch, the two       *)
(* listener registries, the secret and crypto configuration, the bundled   *)
(* plugins expires() and idle(), and mergeCookies().                        *)
(*                                                                         *)
(* JavaScript values are records [k, n, s]: k is the kind of the value,    *)
(* n its number (for a number or a Date) and s its text (for a string).    *)
(* A session is a function from Keys to values; a key the object does not  *)
(* have maps to Absent.                                                     *)
(***************************************************************************)
EXTENDS Integers, Sequences, FiniteSets, TLC

\* ------------------------------------------------------------- bounds

\* Date.now() runs from 0 to MaxSeconds seconds, one second at a time.
MaxSeconds == 1
\* nanoid() is called at most MaxIds times in a behaviour.
MaxIds == 3
\* At most MaxListeners entries in each registry.
MaxListeners == 2
\* Session.create is given at most MaxPlugins plugins.
MaxPlugins == 2

\* --------------------------------------------------- JavaScript values

\* `seconds * 1000` of expires() and idle().
MsPerSecond == 1000

Num(n) == [k |-> "num", n |-> n, s |-> ""]
Str(s) == [k |-> "str", n |-> 0, s |-> s]
\* The i-th string nanoid() returned: 21 random characters, never empty.
Nanoid(i) == [k |-> "str", n |-> i, s |-> "nanoid"]
\* A Date object at time n, and the string toISOString() gives for it.
DateV(n) == [k |-> "date", n |-> n, s |-> ""]
Iso(n) == [k |-> "str", n |-> n, s |-> "iso"]
Undefined == [k |-> "undefined", n |-> 0, s |-> ""]
Null == [k |-> "null", n |-> 0, s |-> ""]
NaN == [k |-> "nan", n |-> 0, s |-> ""]
\* What a function maps a key to when the object has no such key.
Absent == [k |-> "absent", n |-> 0, s |-> ""]

\* `a > t` for a number t: a Date compares by its time, a missing or
\* undefined operand and a non-numeric string give NaN, which is not > t.
Gt(a, t) == a.k \in {"num", "date"} /\ a.n > t

\* `a + m` for a number m, where the code goes on to compare the sum.
Plus(a, m) == IF a.k = "num" THEN Num(a.n + m) ELSE NaN

\* ------------------------------------------------------------ sessions

Keys == {"id", "user", "since", "expires", "lastActive"}

\* No session: the object with no key at all.
NoSession == [key \in Keys |-> Absent]

HasKey(session, key) == session[key] # Absent

\* JSON.stringify of one value, as Iron.seal applies it: a Date becomes its
\* ISO string, undefined drops the key, NaN becomes null.
ToJSON(v) ==
  CASE v.k = "date" -> Iso(v.n)
    [] v.k = "undefined" -> Absent
    [] v.k = "nan" -> Null
    [] OTHER -> v

\* Stringify that leaves the id out of the sealed text.
StringifyWithoutId(session) ==
  [key \in Keys |-> IF key = "id" THEN Absent ELSE ToJSON(session[key])]

Stringify(session) == [key \in Keys |-> ToJSON(session[key])]

\* JSON.parse of what Stringify produced: every JSON value reads back as
\* itself (a string stays a string, also the ISO string of a Date).
Parse(payload) == payload

\* ------------------------------------------------------------- plugins

\* expires(seconds), idle(seconds), and a plugin of the application that
\* has a validate hook only ("guard": SessionPlugin's hooks are optional).
Expires(seconds) == [name |-> "expires", seconds |-> seconds]
Idle(seconds) == [name |-> "idle", seconds |-> seconds]
Guard == [name |-> "guard", seconds |-> 0]

\* `if (extension.create)`.
HasCreate(plugin) == plugin.name \in {"expires", "idle"}

\* The create hook of a plugin, at Date.now() = t.
PluginCreate(plugin, session, t) ==
  CASE plugin.name = "expires" ->
         [session EXCEPT !["expires"] = Num(t + plugin.seconds * MsPerSecond)]
    [] plugin.name = "idle" -> [session EXCEPT !["lastActive"] = Num(t)]
    [] OTHER -> session

\* The validate hook of a plugin, or a validator of the application; the
\* answer is "true", "false" or "throws".
\*   expires: session.expires > Date.now()
\*   idle:    session.lastActive + seconds * 1000 > Date.now()
\*   deny:    () => false
\*   hasUser: (s) => s.user.length > 0, a TypeError when s has no user
CallValidator(fn, session, t) ==
  CASE fn.name = "expires" ->
         IF Gt(session["expires"], t) THEN "true" ELSE "false"
    [] fn.name = "idle" ->
         IF Gt(Plus(session["lastActive"], fn.seconds * MsPerSecond), t)
         THEN "true" ELSE "false"
    [] fn.name = "deny" -> "false"
    [] fn.name = "hasUser" ->
         IF session["user"].k \in {"absent", "undefined", "null"} THEN "throws"
         ELSE IF session["user"].k = "str" /\ session["user"] # Str("")
         THEN "true" ELSE "false"
    [] OTHER -> "true"

\* ToucherMutates of touchers that leave the object as it was.
ToucherMutatesNothing(fn, session, t) == session

\* What a toucher does to the object it is given, at Date.now() = t:
\*   idle:  session.lastActive = Date.now(); return session
\*   renew: (s) => ({ ...s, lastActive: Date.now() }), a toucher of the
\*          application that returns a new object and leaves s as it was
ToucherMutates(fn, session, t) ==
  IF fn.name = "idle" THEN [session EXCEPT !["lastActive"] = Num(t)]
  ELSE session

\* What a toucher returns, given the object: both touchers return a session
\* whose lastActive is Date.now().
ToucherReturns(fn, session, t) == [session EXCEPT !["lastActive"] = Num(t)]

\* ------------------------------------------------------ Session.create

\* `{ id: Session.id(), ...sessionData }`: the spread comes after the id.
NewSession(fresh, sessionData) ==
  [key \in Keys |->
     IF HasKey(sessionData, key) THEN sessionData[key]
     ELSE IF key = "id" THEN fresh ELSE Absent]

\* CreateLoop that hands every create hook the session it started with and
\* keeps what the last hook returned.
RECURSIVE CreateLoopFromStart(_, _, _, _)
CreateLoopFromStart(session, extensions, i, t) ==
  IF i > Len(extensions) THEN session
  ELSE LET rest == CreateLoopFromStart(session, extensions, i + 1, t)
       IN IF rest # session \/ ~HasCreate(extensions[i]) THEN rest
          ELSE PluginCreate(extensions[i], session, t)

\* The loop over the extensions, from the i-th on.
RECURSIVE CreateLoop(_, _, _, _)
CreateLoop(session, extensions, i, t) ==
  IF i > Len(extensions) THEN session
  ELSE CreateLoop(
         IF HasCreate(extensions[i])
         THEN PluginCreate(extensions[i], session, t) ELSE session,
         extensions, i + 1, t)

CreateSession(fresh, sessionData, extensions, t) ==
  CreateLoop(NewSession(fresh, sessionData), extensions, 1, t)

\* ---------------------------------------------------- Session.validate

\* ValidateLoop that calls every validator and answers at the end.
RECURSIVE ValidateLoopToTheEnd(_, _, _, _, _)
ValidateLoopToTheEnd(registry, i, session, t, invoked) ==
  IF i > Len(registry) THEN [result |-> "true", invoked |-> invoked]
  ELSE LET answer == CallValidator(registry[i].fn, session, t)
           called == Append(invoked, registry[i].id)
           rest == ValidateLoopToTheEnd(registry, i + 1, session, t, called)
       IN IF answer = "true" THEN rest
          ELSE [result |-> answer, invoked |-> rest.invoked]

\* The loop over Session._validators.values(), in insertion order, from the
\* i-th entry on; `invoked` collects the ids of the validators called.
RECURSIVE ValidateLoop(_, _, _, _, _)
ValidateLoop(registry, i, session, t, invoked) ==
  IF i > Len(registry) THEN [result |-> "true", invoked |-> invoked]
  ELSE LET answer == CallValidator(registry[i].fn, session, t)
           called == Append(invoked, registry[i].id)
       IN IF answer = "true"
          THEN ValidateLoop(registry, i + 1, session, t, called)
          ELSE [result |-> answer, invoked |-> called]

\* Session.validate(session): "true", "false", or "throws" when a validator
\* throws (validate has no try).
RunValidate(registry, session, t) == ValidateLoop(registry, 1, session, t, <<>>)

\* ------------------------------------------------------- Session.touch

\* `toucher(session)`: the value a toucher returns is dropped, the object
\* it mutated is the one touch returns.
RECURSIVE TouchLoop(_, _, _, _)
TouchLoop(registry, i, session, t) ==
  IF i > Len(registry) THEN session
  ELSE TouchLoop(registry, i + 1, ToucherMutates(registry[i].fn, session, t), t)

RunTouch(registry, session, t) == TouchLoop(registry, 1, session, t)

\* ------------------------------------------------------- the registries

\* A registry is a Map in insertion order: a sequence of [id, fn].
RegistryIds(registry) == {registry[i].id : i \in DOMAIN registry}

\* Map.set(id, fn) with an id nanoid() just made.
MapSet(registry, id, fn) == Append(registry, [id |-> id, fn |-> fn])

\* Map.delete that drops the oldest entry, whatever the id.
MapDeleteOldest(registry, id) ==
  IF registry = <<>> THEN <<>> ELSE Tail(registry)

\* Map.delete(id): the other entries keep their order.
RECURSIVE MapDelete(_, _)
MapDelete(registry, id) ==
  IF registry = <<>> THEN <<>>
  ELSE IF Head(registry).id = id THEN Tail(registry)
  ELSE <<Head(registry)>> \o MapDelete(Tail(registry), id)

\* ------------------------------------------------- Iron.seal / unseal

NoSecret == ""
NoCrypto == "undefined"

\* The token of no cookie.
NoToken == [payload |-> NoSession, key |-> NoSecret, intact |-> FALSE]

\* Iron.seal(crypto, session, secret): the JSON text of the session,
\* encrypted and signed under the secret.
Seal(session, secret) ==
  [payload |-> Stringify(session), key |-> secret, intact |-> TRUE]

\* Iron.seal and Iron.unseal reject without a crypto implementation.
CryptoWorks(provider) == provider # NoCrypto

\* Opens that does not look at the secret.
OpensAnySecret(provider, token, secret) ==
  CryptoWorks(provider) /\ token.intact

\* Iron.unseal(crypto, token, secret) resolves when the token is intact and
\* was sealed under this secret, and rejects otherwise.
Opens(provider, token, secret) ==
  CryptoWorks(provider) /\ token.intact /\ token.key = secret

Unseal(token) == Parse(token.payload)

\* ------------------------------------------------------- cookie stores

\* The cookie jars: a ResponseCookies of its own ("own"), and the request
\* and response cookies that mergeCookies joins.
Jars == {"own", "req", "res"}
\* The stores a caller passes: the jar "own", or mergeCookies(req, res).
Stores == {"own", "merged"}

\* ReadJar of a mergeCookies that binds its readers to the response cookies.
ReadJarResponse(store) == IF store = "merged" THEN "res" ELSE store

\* mergeCookies: get, getAll and has read the request cookies, set and
\* delete write the response cookies.
ReadJar(store) == IF store = "merged" THEN "req" ELSE store
WriteJar(store) == IF store = "merged" THEN "res" ELSE store

\* What a jar holds under sessionName: a cookie, or none. Of a cookie the
\* value is kept, which is all get reads; its attributes (maxAge, httpOnly,
\* sameSite, path) are not.
NoCookie == [present |-> FALSE, value |-> NoToken]
Cookie(value) == [present |-> TRUE, value |-> value]

\* --------------------------------------------------------------- state

VARIABLES
  sessionSecret,   \* `let sessionSecret`: NoSecret or the secret
  crypto,          \* Session.crypto: NoCrypto or a webcrypto implementation
  validators,      \* Session._validators
  touchListeners,  \* Session._touchListeners
  now,             \* Date.now(), in milliseconds
  nanoids,         \* how many ids nanoid() has returned
  cookies,         \* what each jar holds under sessionName
  cur,             \* the session the caller created last, or NoSession
  last,            \* the call that returned last, with what it returned
  prev,            \* what the last call came directly after
  pending          \* per store, the get or save suspended in its await

vars == <<sessionSecret, crypto, validators, touchListeners, now, nanoids,
          cookies, cur, last, prev, pending>>

\* The id a registration returns: 'v,' + id or 't,' + id.
Handle(kind, id) == [kind |-> kind, id |-> id]
NoHandle == Handle("", 0)

\* The record of a call: its name, the store it was given, how it ended
\* (outcome), the session it returned or was given, the data and plugins of
\* a create (for a touch, data is the session as it was given), the
\* validators or touchers it invoked, whether it called Iron.unseal,
\* whether it wrote to the store, the registration id it returned or was
\* given, and the cookies a read of the store returned.
Call(op) ==
  [op |-> op, store |-> "", outcome |-> "", session |-> NoSession,
   data |-> NoSession, plugins |-> <<>>, invoked |-> <<>>,
   unsealTried |-> FALSE, wrote |-> FALSE, handle |-> NoHandle,
   read |-> <<>>]

\* What a get or a destroy came directly after: a save or a destroy on the
\* same store (its name and how it ended), or anything else.
NoBrief == [op |-> "other", outcome |-> ""]
Brief(call, op, store) ==
  IF op \in {"get", "destroy"} /\ call.op \in {"save", "destroy"}
     /\ call.store = store
  THEN [op |-> call.op, outcome |-> call.outcome]
  ELSE NoBrief

\* What an onValidate came after: the validator registry it was called in.
\* What a removeListener came directly after, when it is given the id that
\* onValidate just returned: that onValidate, with the registry before it.
\* A validate directly after such a removeListener comes after the same.
Before(registry) ==
  [op |-> "state", outcome |-> "", validators |-> registry,
   handle |-> NoHandle]
BriefRemove(call, before, handle) ==
  IF call.op = "onValidate" /\ call.handle = handle /\ before.op = "state"
  THEN [before EXCEPT !.op = "onValidate", !.handle = handle]
  ELSE NoBrief
BriefValidate(call, before) ==
  IF call.op = "removeListener" /\ before.op = "onValidate"
  THEN before ELSE NoBrief

\* No call is suspended on the store.
NotPending == [op |-> "none"]

\* A call suspended in its await: what it evaluated before it suspended
\* (the cookie it read, Session.crypto and sessionSecret as arguments of
\* Iron.unseal or Iron.seal, the session given to Iron.seal), and, of the
\* state it started in, the validator registry and the jars.
Suspended(op, cookie, session) ==
  [op |-> op, outcome |-> "", cookie |-> cookie, session |-> session,
   secret |-> sessionSecret, provider |-> crypto,
   validators |-> validators, jars |-> cookies]

\* What a call that resumed came after: the call as it suspended.
Resumed(call) == [call EXCEPT !.op = "suspended"]

Secrets == {"A", "B"}
Providers == {"webcrypto"}

\* $KIYOI_SESSION_SECRET may or may not be set when the module loads;
\* Session.crypto is the global crypto.
Init ==
  /\ sessionSecret \in {NoSecret, "A"}
  /\ crypto = "webcrypto"
  /\ validators = <<>>
  /\ touchListeners = <<>>
  /\ now = 0
  /\ nanoids = 0
  /\ cookies = [jar \in Jars |-> NoCookie]
  /\ cur = NoSession
  /\ last = Call("load")
  /\ prev = NoBrief
  /\ pending = [store \in Stores |-> NotPending]

\* ------------------------------------------------------- Session.get

\* AfterValidate with Session.validate outside the try.
AfterValidateUncaught(result) ==
  CASE result = "true" -> "ok"
    [] result = "false" -> "ValidationFailed"
    [] OTHER -> "threw"

\* The catch of get encloses Session.validate as well as Iron.unseal: a
\* validator that throws ends in the catch.
AfterValidate(result) ==
  CASE result = "true" -> "ok"
    [] result = "false" -> "ValidationFailed"
    [] OTHER -> "InvalidCookie"

\* GetCall without `if (!cookie) return`: a missing cookie goes on to
\* Iron.unseal, which rejects.
GetCallUnsealsFirst(store, cookie, secret, provider, registry, t) ==
  IF secret = NoSecret
  THEN [Call("get") EXCEPT !.store = store, !.outcome = "threw"]
  ELSE [Call("get") EXCEPT !.store = store, !.outcome = "InvalidCookie",
                           !.unsealTried = TRUE]

\* Session.get on a store whose get(sessionName) gives `cookie`.
GetCall(store, cookie, secret, provider, registry, t) ==
  IF secret = NoSecret
  THEN [Call("get") EXCEPT !.store = store, !.outcome = "threw"]
  ELSE IF ~cookie.present
  THEN [Call("get") EXCEPT !.store = store, !.outcome = "NoCookie"]
  ELSE IF ~Opens(provider, cookie.value, secret)
  THEN [Call("get") EXCEPT !.store = store, !.outcome = "InvalidCookie",
                           !.unsealTried = TRUE]
  ELSE LET session == Unseal(cookie.value)
           checked == RunValidate(registry, session, t)
           outcome == AfterValidate(checked.result)
       IN [Call("get") EXCEPT !.store = store, !.outcome = outcome,
             !.session = IF outcome = "ok" THEN session ELSE NoSession,
             !.unsealTried = TRUE, !.invoked = checked.invoked]

\* Get that deletes the cookie it could not open or that was rejected.
GetDeletesInvalid(store) ==
  /\ last' = GetCall(store, cookies[ReadJar(store)], sessionSecret, crypto,
                     validators, now)
  /\ pending' = pending
  /\ prev' = Brief(last, "get", store)
  /\ cookies' = IF last'.outcome \in {"InvalidCookie", "ValidationFailed"}
                THEN [cookies EXCEPT ![ReadJar(store)] = NoCookie]
                ELSE cookies
  /\ UNCHANGED <<sessionSecret, crypto, validators, touchListeners, now,
                 nanoids, cur>>

\* A get that nothing runs during: the call and its resumption in one step.
Get(store) ==
  /\ last' = GetCall(store, cookies[ReadJar(store)], sessionSecret, crypto,
                     validators, now)
  /\ pending' = pending
  /\ prev' = Brief(last, "get", store)
  /\ UNCHANGED <<sessionSecret, crypto, validators, touchListeners, now,
                 nanoids, cookies, cur>>

\* ------------------------------------------------------ Session.save

\* Whether save gets as far as cookieStore.set: it throws without a secret,
\* and the awaited Iron.seal rejects without a crypto implementation.
SaveWrites(secret, provider) == secret # NoSecret /\ CryptoWorks(provider)

\* The cookie save sets: the sealed session.
SavedCookie(session, secret) == Cookie(Seal(session, secret))

\* A save that nothing runs during: the call and its resumption in one
\* step.
Save(store) ==
  /\ cur # NoSession
  /\ LET wrote == SaveWrites(sessionSecret, crypto)
     IN /\ cookies' = IF wrote
                      THEN [cookies EXCEPT ![WriteJar(store)] =
                              SavedCookie(cur, sessionSecret)]
                      ELSE cookies
        /\ last' = [Call("save") EXCEPT !.store = store, !.session = cur,
                      !.outcome = IF wrote THEN "ok" ELSE "threw",
                      !.wrote = wrote]
  /\ pending' = pending
  /\ prev' = NoBrief
  /\ UNCHANGED <<sessionSecret, crypto, validators, touchListeners, now,
                 nanoids, cur>>

\* --------------------------------------------------- Session.destroy

\* DeleteCookie that leaves the cookie where it is.
DeleteCookieKeeps(cookie) == cookie

\* cookieStore.delete(sessionName): the jar holds no session cookie.
DeleteCookie(cookie) == NoCookie

Destroy(store) ==
  /\ cookies' = [cookies EXCEPT ![WriteJar(store)] = DeleteCookie(@)]
  /\ last' = [Call("destroy") EXCEPT !.store = store, !.outcome = "ok",
                !.wrote = TRUE]
  /\ pending' = pending
  /\ prev' = Brief(last, "destroy", store)
  /\ UNCHANGED <<sessionSecret, crypto, validators, touchListeners, now,
                 nanoids, cur>>

\* ------------------------------- get and save across their await

\* Session.get up to `await Iron.unseal(...)`: without a secret it throws
\* and without a cookie it returns NoCookie, both before the await;
\* otherwise the arguments of Iron.unseal are evaluated and the call
\* suspends.
GetStart(store) ==
  /\ pending[store] = NotPending
  /\ LET cookie == cookies[ReadJar(store)]
     IN IF sessionSecret = NoSecret \/ ~cookie.present
        THEN /\ last' = GetCall(store, cookie, sessionSecret, crypto,
                                validators, now)
             /\ pending' = pending
        ELSE /\ last' = [Call("get") EXCEPT !.store = store,
                           !.outcome = "pending"]
             /\ pending' = [pending EXCEPT ![store] =
                              Suspended("get", cookie, NoSession)]
  /\ prev' = NoBrief
  /\ UNCHANGED <<sessionSecret, crypto, validators, touchListeners, now,
                 nanoids, cookies, cur>>

\* GetResume that reads sessionSecret and Session.crypto when it resumes.
GetResumeReadsLate(store) ==
  /\ pending[store] # NotPending /\ pending[store].op = "get"
  /\ last' = GetCall(store, pending[store].cookie, sessionSecret, crypto,
                     validators, now)
  /\ prev' = Resumed(pending[store])
  /\ pending' = [pending EXCEPT ![store] = NotPending]
  /\ UNCHANGED <<sessionSecret, crypto, validators, touchListeners, now,
                 nanoids, cookies, cur>>

\* Session.get from the await on: Iron.unseal settles on the arguments it
\* was given, then Session.validate reads Session._validators and
\* Date.now() as they are now.
GetResume(store) ==
  /\ pending[store] # NotPending /\ pending[store].op = "get"
  /\ last' = GetCall(store, pending[store].cookie, pending[store].secret,
                     pending[store].provider, validators, now)
  /\ prev' = Resumed(pending[store])
  /\ pending' = [pending EXCEPT ![store] = NotPending]
  /\ UNCHANGED <<sessionSecret, crypto, validators, touchListeners, now,
                 nanoids, cookies, cur>>

\* Session.save up to `await Iron.seal(...)`: without a secret it throws
\* before the await; otherwise the arguments of Iron.seal are evaluated
\* and the call suspends.
SaveStart(store) ==
  /\ cur # NoSession
  /\ pending[store] = NotPending
  /\ IF sessionSecret = NoSecret
     THEN /\ last' = [Call("save") EXCEPT !.store = store, !.session = cur,
                        !.outcome = "threw"]
          /\ pending' = pending
     ELSE /\ last' = [Call("save") EXCEPT !.store = store, !.session = cur,
                        !.outcome = "pending"]
          /\ pending' = [pending EXCEPT ![store] =
                           Suspended("save", NoCookie, cur)]
  /\ prev' = NoBrief
  /\ UNCHANGED <<sessionSecret, crypto, validators, touchListeners, now,
                 nanoids, cookies, cur>>

\* SaveResume that sets the cookie on the store of another call.
SaveResumeOtherStore(store) ==
  /\ pending[store] # NotPending /\ pending[store].op = "save"
  /\ LET call == pending[store]
         wrote == SaveWrites(call.secret, call.provider)
         other == CHOOSE s \in Stores : s # store
     IN /\ cookies' = IF wrote
                      THEN [cookies EXCEPT ![WriteJar(other)] =
                              SavedCookie(call.session, call.secret)]
                      ELSE cookies
        /\ last' = [Call("save") EXCEPT !.store = store,
                      !.session = call.session,
                      !.outcome = IF wrote THEN "ok" ELSE "threw",
                      !.wrote = wrote]
  /\ prev' = Resumed(pending[store])
  /\ pending' = [pending EXCEPT ![store] = NotPending]
  /\ UNCHANGED <<sessionSecret, crypto, validators, touchListeners, now,
                 nanoids, cur>>

\* Session.save from the await on: Iron.seal settles on the arguments it
\* was given, and what it sealed is set on the store.
SaveResume(store) ==
  /\ pending[store] # NotPending /\ pending[store].op = "save"
  /\ LET call == pending[store]
         wrote == SaveWrites(call.secret, call.provider)
     IN /\ cookies' = IF wrote
                      THEN [cookies EXCEPT ![WriteJar(store)] =
                              SavedCookie(call.session, call.secret)]
                      ELSE cookies
        /\ last' = [Call("save") EXCEPT !.store = store,
                      !.session = call.session,
                      !.outcome = IF wrote THEN "ok" ELSE "threw",
                      !.wrote = wrote]
  /\ prev' = Resumed(pending[store])
  /\ pending' = [pending EXCEPT ![store] = NotPending]
  /\ UNCHANGED <<sessionSecret, crypto, validators, touchListeners, now,
                 nanoids, cur>>

\* ------------------------------------------ the methods of a store

\* cookieStore.get(sessionName): the cookie, or undefined.
StoreGet(store) ==
  /\ last' = [Call("store.get") EXCEPT !.store = store, !.outcome = "ok",
                !.read = IF cookies[ReadJar(store)].present
                         THEN <<cookies[ReadJar(store)]>> ELSE <<>>]
  /\ pending' = pending
  /\ prev' = NoBrief
  /\ UNCHANGED <<sessionSecret, crypto, validators, touchListeners, now,
                 nanoids, cookies, cur>>

\* cookieStore.getAll(): the cookies of the jar.
StoreGetAll(store) ==
  /\ last' = [Call("store.getAll") EXCEPT !.store = store, !.outcome = "ok",
                !.read = IF cookies[ReadJar(store)].present
                         THEN <<cookies[ReadJar(store)]>> ELSE <<>>]
  /\ pending' = pending
  /\ prev' = NoBrief
  /\ UNCHANGED <<sessionSecret, crypto, validators, touchListeners, now,
                 nanoids, cookies, cur>>

\* cookieStore.has(sessionName).
StoreHas(store) ==
  /\ last' = [Call("store.has") EXCEPT !.store = store,
                !.outcome = IF cookies[ReadJar(store)].present
                            THEN "true" ELSE "false"]
  /\ pending' = pending
  /\ prev' = NoBrief
  /\ UNCHANGED <<sessionSecret, crypto, validators, touchListeners, now,
                 nanoids, cookies, cur>>

\* cookieStore.set(sessionName, value).
StoreSet(store, value) ==
  /\ cookies' = [cookies EXCEPT ![WriteJar(store)] = Cookie(value)]
  /\ last' = [Call("store.set") EXCEPT !.store = store, !.outcome = "ok",
                !.wrote = TRUE]
  /\ pending' = pending
  /\ prev' = NoBrief
  /\ UNCHANGED <<sessionSecret, crypto, validators, touchListeners, now,
                 nanoids, cur>>

\* cookieStore.delete(sessionName).
StoreDelete(store) ==
  /\ cookies' = [cookies EXCEPT ![WriteJar(store)] = DeleteCookie(@)]
  /\ last' = [Call("store.delete") EXCEPT !.store = store, !.outcome = "ok",
                !.wrote = TRUE]
  /\ pending' = pending
  /\ prev' = NoBrief
  /\ UNCHANGED <<sessionSecret, crypto, validators, touchListeners, now,
                 nanoids, cur>>

\* ---------------------------------------------------- Session.create

\* Create that also registers the validate hook of its first plugin.
CreateWiresHooks(sessionData, extensions) ==
  /\ nanoids < MaxIds
  /\ nanoids' = nanoids + 1
  /\ cur' = CreateSession(Nanoid(nanoids'), sessionData, extensions, now)
  /\ last' = [Call("create") EXCEPT !.outcome = "ok", !.session = cur',
                !.data = sessionData, !.plugins = extensions]
  /\ pending' = pending
  /\ prev' = NoBrief
  /\ validators' = IF extensions = <<>> THEN validators
                   ELSE MapSet(validators, nanoids', extensions[1])
  /\ UNCHANGED <<sessionSecret, crypto, touchListeners, now, cookies>>

Create(sessionData, extensions) ==
  /\ nanoids < MaxIds
  /\ nanoids' = nanoids + 1
  /\ cur' = CreateSession(Nanoid(nanoids'), sessionData, extensions, now)
  /\ last' = [Call("create") EXCEPT !.outcome = "ok", !.session = cur',
                !.data = sessionData, !.plugins = extensions]
  /\ pending' = pending
  /\ prev' = NoBrief
  /\ UNCHANGED <<sessionSecret, crypto, validators, touchListeners, now,
                 cookies>>

\* ------------------------------------- Session.validate, Session.touch

Validate ==
  /\ cur # NoSession
  /\ LET checked == RunValidate(validators, cur, now)
     IN last' = [Call("validate") EXCEPT !.outcome = checked.result,
                   !.session = cur, !.invoked = checked.invoked]
  /\ pending' = pending
  /\ prev' = BriefValidate(last, prev)
  /\ UNCHANGED <<sessionSecret, crypto, validators, touchListeners, now,
                 nanoids, cookies, cur>>

Touch ==
  /\ cur # NoSession
  /\ cur' = RunTouch(touchListeners, cur, now)
  /\ last' = [Call("touch") EXCEPT !.outcome = "ok", !.session = cur',
                !.data = cur,
                !.invoked = [i \in DOMAIN touchListeners |->
                               touchListeners[i].id]]
  /\ pending' = pending
  /\ prev' = NoBrief
  /\ UNCHANGED <<sessionSecret, crypto, validators, touchListeners, now,
                 nanoids, cookies>>

\* ------------------------------ onValidate, onTouch, removeListener

OnValidate(fn) ==
  /\ nanoids < MaxIds
  /\ Len(validators) < MaxListeners
  /\ nanoids' = nanoids + 1
  /\ validators' = MapSet(validators, nanoids', fn)
  /\ last' = [Call("onValidate") EXCEPT !.outcome = "ok",
                !.handle = Handle("v", nanoids')]
  /\ pending' = pending
  /\ prev' = Before(validators)
  /\ UNCHANGED <<sessionSecret, crypto, touchListeners, now, cookies, cur>>

OnTouch(fn) ==
  /\ nanoids < MaxIds
  /\ Len(touchListeners) < MaxListeners
  /\ nanoids' = nanoids + 1
  /\ touchListeners' = MapSet(touchListeners, nanoids', fn)
  /\ last' = [Call("onTouch") EXCEPT !.outcome = "ok",
                !.handle = Handle("t", nanoids')]
  /\ pending' = pending
  /\ prev' = NoBrief
  /\ UNCHANGED <<sessionSecret, crypto, validators, now, cookies, cur>>

\* removeListener that leaves the prefix aside and deletes the id from both
\* registries.
RemoveListenerAnyKind(handle) ==
  /\ validators' = MapDelete(validators, handle.id)
  /\ touchListeners' = MapDelete(touchListeners, handle.id)
  /\ last' = [Call("removeListener") EXCEPT !.outcome = "ok",
                !.handle = handle,
                !.wrote = (validators' # validators
                             \/ touchListeners' # touchListeners)]
  /\ pending' = pending
  /\ prev' = BriefRemove(last, prev, handle)
  /\ UNCHANGED <<sessionSecret, crypto, now, nanoids, cookies, cur>>

\* `id.startsWith('v,')`, `id.startsWith('t,')`, and neither; `wrote` is
\* whether Map.delete found the id.
RemoveListener(handle) ==
  /\ validators' = IF handle.kind = "v"
                   THEN MapDelete(validators, handle.id) ELSE validators
  /\ touchListeners' = IF handle.kind = "t"
                       THEN MapDelete(touchListeners, handle.id)
                       ELSE touchListeners
  /\ last' = [Call("removeListener") EXCEPT !.outcome = "ok",
                !.handle = handle,
                !.wrote = (validators' # validators
                             \/ touchListeners' # touchListeners)]
  /\ pending' = pending
  /\ prev' = BriefRemove(last, prev, handle)
  /\ UNCHANGED <<sessionSecret, crypto, now, nanoids, cookies, cur>>

\* ------------------------------------- setSessionSecret, setCrypto

SetSessionSecret(pw) ==
  /\ sessionSecret' = pw
  /\ last' = [Call("setSessionSecret") EXCEPT !.outcome = "ok"]
  /\ pending' = pending
  /\ prev' = NoBrief
  /\ UNCHANGED <<crypto, validators, touchListeners, now, nanoids, cookies,
                 cur>>

SetCrypto(provider) ==
  /\ crypto' = provider
  /\ last' = [Call("setCrypto") EXCEPT !.outcome = "ok"]
  /\ pending' = pending
  /\ prev' = NoBrief
  /\ UNCHANGED <<sessionSecret, validators, touchListeners, now, nanoids,
                 cookies, cur>>

\* ------------------------------------------------------ environment

\* A second passes.
Tick ==
  /\ now + MsPerSecond <= MaxSeconds * MsPerSecond
  /\ now' = now + MsPerSecond
  /\ last' = Call("tick")
  /\ pending' = pending
  /\ prev' = NoBrief
  /\ UNCHANGED <<sessionSecret, crypto, validators, touchListeners, nanoids,
                 cookies, cur>>

\* The client changes a character of the cookie it holds.
Tamper(jar) ==
  /\ cookies[jar].present /\ cookies[jar].value.intact
  /\ cookies' = [cookies EXCEPT ![jar].value.intact = FALSE]
  /\ last' = Call("tamper")
  /\ pending' = pending
  /\ prev' = NoBrief
  /\ UNCHANGED <<sessionSecret, crypto, validators, touchListeners, now,
                 nanoids, cur>>

\* The client sends, with its next request, a cookie a response gave it.
Replay(jar) ==
  /\ cookies[jar].present
  /\ cookies[jar] # cookies["req"]
  /\ cookies' = [cookies EXCEPT !["req"] = cookies[jar]]
  /\ last' = Call("replay")
  /\ pending' = pending
  /\ prev' = NoBrief
  /\ UNCHANGED <<sessionSecret, crypto, validators, touchListeners, now,
                 nanoids, cur>>

\* ----------------------------------------------------------- inputs

Object(id, user, since, expiry) ==
  [key \in Keys |->
     CASE key = "id" -> id
       [] key = "user" -> user
       [] key = "since" -> since
       [] key = "expires" -> expiry
       [] OTHER -> Absent]

\* The session data given to create: with and without an id of its own,
\* a user, a Date, an expires of its own.
SessionData ==
  {Object(Absent, Absent, Absent, Absent),
   Object(Absent, Str("ann"), Absent, Absent),
   Object(Str(""), Absent, Absent, Absent),
   Object(Str("admin"), Str("ann"), Absent, Absent),
   Object(Absent, Absent, DateV(0), Absent),
   Object(Absent, Absent, Absent, Num(500))}

Plugins == {Expires(0), Expires(1), Idle(1), Guard}

RECURSIVE SeqsUpTo(_, _)
SeqsUpTo(S, n) ==
  IF n = 0 THEN {<<>>}
  ELSE LET shorter == SeqsUpTo(S, n - 1)
       IN shorter \cup {Append(q, x) : q \in shorter, x \in S}

PluginLists == SeqsUpTo(Plugins, MaxPlugins)

\* The data and plugins of the sessions that are saved and fetched.
SavedInputs ==
  {<<Object(Absent, Absent, Absent, Absent), <<Expires(1)>> >>,
   <<Object(Absent, Str("ann"), Absent, Absent), <<Expires(0)>> >>,
   <<Object(Absent, Str("ann"), DateV(0), Absent), <<Expires(1), Idle(1)>> >>}

ValidatorFns ==
  {[name |-> "expires", seconds |-> 0], [name |-> "idle", seconds |-> 1],
   [name |-> "deny", seconds |-> 0], [name |-> "hasUser", seconds |-> 0]}
\* The validators registered while sessions are saved and fetched.
SavedValidatorFns == {fn \in ValidatorFns : fn.name # "idle"}
\* The validators registered and removed while a get is suspended.
SuspendedValidatorFns == {fn \in ValidatorFns : fn.name \in {"deny", "hasUser"}}
ToucherFns ==
  {[name |-> "idle", seconds |-> 1], [name |-> "renew", seconds |-> 0]}
Handles == {Handle(kind, id) : kind \in {"v", "t", ""}, id \in 1..MaxIds}

\* ------------------------------------------------------ specifications

\* The life of one session: created once, saved, fetched and destroyed on
\* the two stores, under every configuration.
Next ==
  \/ \E store \in Stores : Get(store)
  \/ \E store \in Stores : Save(store)
  \/ \E store \in Stores : Destroy(store)
  \/ cur = NoSession /\ \E input \in SavedInputs : Create(input[1], input[2])
  \/ cur = NoSession /\ \E fn \in SavedValidatorFns : OnValidate(fn)
  \/ \E pw \in (Secrets \cup {NoSecret}) \ {sessionSecret} :
       SetSessionSecret(pw)
  \/ \E provider \in (Providers \cup {NoCrypto}) \ {crypto} :
       SetCrypto(provider)
  \/ Tick
  \/ Tamper("own")
  \/ Replay("res")

Spec == Init /\ [][Next]_vars

\* Session.create on every data and plugin list.
NextCreate ==
  \/ \E d \in SessionData, P \in PluginLists : Create(d, P)
  \/ Tick

SpecCreate == Init /\ [][NextCreate]_vars

\* The two registries, with validate and touch, and get and save on a
\* store under whatever is registered.
NextListeners ==
  \/ \E input \in SavedInputs : Create(input[1], input[2])
  \/ \E fn \in ValidatorFns : OnValidate(fn)
  \/ \E fn \in ToucherFns : OnTouch(fn)
  \/ \E handle \in Handles : RemoveListener(handle)
  \/ Validate
  \/ Touch
  \/ Get("own")
  \/ Save("own")
  \/ Tick

SpecListeners == Init /\ [][NextListeners]_vars

\* Calls on the two stores that suspend and resume in any order, at most
\* one call on a store at a time, with the secret, the crypto provider and
\* the registries as they were set at startup; between two requests the
\* client sends back the cookie of a response.
NextConcurrent ==
  \/ \E store \in Stores : GetStart(store)
  \/ \E store \in Stores : GetResume(store)
  \/ \E store \in Stores : SaveStart(store)
  \/ \E store \in Stores : SaveResume(store)
  \/ \E store \in Stores : pending[store] = NotPending /\ Destroy(store)
  \/ cur = NoSession /\ \E input \in SavedInputs : Create(input[1], input[2])
  \/ cur = NoSession /\ \E fn \in SavedValidatorFns : OnValidate(fn)
  \/ pending["merged"] = NotPending /\ Replay("res")
  \/ Tick

SpecConcurrent == Init /\ [][NextConcurrent]_vars

\* A get and a save on a store that suspend while the secret, the crypto
\* provider and the validator registry change.
NextAsync ==
  \/ GetStart("own")
  \/ GetResume("own")
  \/ SaveStart("own")
  \/ SaveResume("own")
  \/ cur = NoSession /\ \E input \in SavedInputs : Create(input[1], input[2])
  \/ \E fn \in SuspendedValidatorFns : OnValidate(fn)
  \/ \E id \in RegistryIds(validators) : RemoveListener(Handle("v", id))
  \/ \E pw \in (Secrets \cup {NoSecret}) \ {sessionSecret} :
       SetSessionSecret(pw)
  \/ \E provider \in (Providers \cup {NoCrypto}) \ {crypto} :
       SetCrypto(provider)

SpecAsync == Init /\ [][NextAsync]_vars

\* The values given to set: a string that is no sealed token, and the token
\* of a session sealed earlier.
StoreValues ==
  {NoToken, Seal(Object(Nanoid(1), Str("ann"), Absent, Num(MsPerSecond)), "A")}

\* The methods of the two stores, with get, save and destroy on them, and
\* the client sending back the cookie of a response.
NextStores ==
  \/ \E store \in Stores : StoreGet(store)
  \/ \E store \in Stores : StoreGetAll(store)
  \/ \E store \in Stores : StoreHas(store)
  \/ \E store \in Stores, value \in StoreValues : StoreSet(store, value)
  \/ \E store \in Stores : StoreDelete(store)
  \/ \E store \in Stores : Get(store)
  \/ \E store \in Stores : Save(store)
  \/ \E store \in Stores : Destroy(store)
  \/ cur = NoSession /\ \E input \in SavedInputs : Create(input[1], input[2])
  \/ Replay("res")

SpecStores == Init /\ [][NextStores]_vars

\* One session saved and fetched on a store while the secret changes.
NextSecret ==
  \/ cur = NoSession /\ \E input \in SavedInputs : Create(input[1], input[2])
  \/ cur = NoSession /\ \E fn \in SavedValidatorFns : OnValidate(fn)
  \/ Save("own")
  \/ Get("own")
  \/ \E pw \in (Secrets \cup {NoSecret}) \ {sessionSecret} :
       SetSessionSecret(pw)
  \/ Tamper("own")
  \/ Tick

SpecSecret == Init /\ [][NextSecret]_vars

\* Registrations and removals, with validate and get on one saved session.
NextRegistry ==
  \/ cur = NoSession /\ \E input \in SavedInputs : Create(input[1], input[2])
  \/ \E fn \in ValidatorFns : OnValidate(fn)
  \/ \E fn \in ToucherFns : OnTouch(fn)
  \/ \E handle \in Handles : RemoveListener(handle)
  \/ Validate
  \/ Get("own")
  \/ Save("own")

SpecRegistry == Init /\ [][NextRegistry]_vars

\* Sessions created with plugins, validated and touched under whatever the
\* caller has registered, as time passes.
NextHooks ==
  \/ \E input \in SavedInputs : Create(input[1], input[2])
  \/ \E fn \in ValidatorFns : OnValidate(fn)
  \/ \E fn \in ToucherFns : OnTouch(fn)
  \/ Validate
  \/ Touch
  \/ Tick

SpecHooks == Init /\ [][NextHooks]_vars

\* ---------------------------------------------------------- the claims

GetOutcomes == {"NoCookie", "InvalidCookie", "ValidationFailed", "ok"}

\* The cookie the last call's store gives to get. A get writes nothing, so
\* after a get this is the cookie that get read.
CookieRead == cookies[ReadJar(last.store)]

\* Every registered validator answers true on the session, at this time.
AllAccept(session) ==
  \A i \in DOMAIN validators :
    CallValidator(validators[i].fn, session, now) = "true"
SomeRejects(session) ==
  \E i \in DOMAIN validators :
    CallValidator(validators[i].fn, session, now) = "false"
SomeThrows(session) ==
  \E i \in DOMAIN validators :
    CallValidator(validators[i].fn, session, now) = "throws"

\* C1: with the secret set, a get returns exactly one of NoCookie,
\* InvalidCookie, ValidationFailed and success, and never throws, whatever
\* the store holds and whatever is registered; success alone carries a
\* session.
C1_GetReturnsOneOutcome ==
  (last.op = "get" /\ sessionSecret # NoSecret) =>
    /\ last.outcome \in GetOutcomes
    /\ (last.outcome = "ok") = (last.session # NoSession)

\* A get, with the secret set, of a cookie that opens, under a validator
\* that throws: it returned.
C1_Witness ==
  /\ last.op = "get" /\ sessionSecret # NoSecret
  /\ CookieRead.present
  /\ Opens(crypto, CookieRead.value, sessionSecret)
  /\ SomeThrows(Unseal(CookieRead.value))
  /\ last.outcome = "InvalidCookie"

\* C2: with the secret set, a get on a store that holds no session cookie
\* returns NoCookie, whatever validators and touchers are registered,
\* without calling Iron.unseal and without invoking a validator.
C2_NoCookieWithoutUnseal ==
  (last.op = "get" /\ sessionSecret # NoSecret /\ ~CookieRead.present) =>
    /\ last.outcome = "NoCookie"
    /\ ~last.unsealTried
    /\ last.invoked = <<>>

\* A get that found no cookie while a validator and a toucher were
\* registered.
C2_Witness ==
  /\ last.op = "get" /\ sessionSecret # NoSecret /\ ~CookieRead.present
  /\ validators # <<>> /\ touchListeners # <<>>
  /\ last.outcome = "NoCookie"

\* C3: with the secret set and a cookie present, get returns InvalidCookie
\* exactly when the sealed payload cannot be opened; a payload that opens
\* never gives InvalidCookie, whatever is registered.
C3_InvalidCookieIffUnopenable ==
  (last.op = "get" /\ sessionSecret # NoSecret /\ CookieRead.present) =>
    ((last.outcome = "InvalidCookie")
       = ~Opens(crypto, CookieRead.value, sessionSecret))

\* C4: with the secret set and a cookie that opens, get returns
\* ValidationFailed exactly when some registered validator rejects the
\* opened session, and success carrying that session otherwise.
C4_ValidationFailedIffRejected ==
  (/\ last.op = "get" /\ sessionSecret # NoSecret /\ CookieRead.present
   /\ Opens(crypto, CookieRead.value, sessionSecret)) =>
    LET session == Unseal(CookieRead.value)
    IN /\ (last.outcome = "ValidationFailed") = SomeRejects(session)
       /\ ~SomeRejects(session) =>
            (last.outcome = "ok" /\ last.session = session)

\* C5: a get or a save called with the secret or the crypto implementation
\* unset throws, and the save writes nothing.
C5_UnsetConfigurationThrows ==
  (/\ last.op \in {"get", "save"}
   /\ (sessionSecret = NoSecret \/ crypto = NoCrypto)) =>
    (last.outcome = "threw" /\ ~last.wrote)
\* The last call is a get that came directly after a save that wrote to
\* the same store.
GetAfterSave ==
  last.op = "get" /\ prev.op = "save" /\ prev.outcome = "ok"

\* A store whose get reads what its set and delete write.
ReadsOwnWrites(store) == ReadJar(store) = WriteJar(store)

\* Values that JSON.stringify and JSON.parse give back as they were.
IsJSON(session) ==
  \A key \in Keys : session[key].k \in {"absent", "num", "str", "null"}

\* C6 as stated: a session created with the expires plugin and saved to a
\* store is returned by the get that directly follows on that store, equal
\* to the original in every field.
C6_SaveGetRoundTrip ==
  (GetAfterSave /\ HasKey(cur, "expires")) =>
    (last.outcome = "ok" /\ last.session = cur)

\* C6 amended: on a store that reads its own writes, the get directly after
\* the save returns success exactly when every registered validator accepts
\* the session, and then the session is the original as JSON gives it back:
\* equal to the original in every field when its values are JSON values.
C6_SaveGetRoundTripAmended ==
  (GetAfterSave /\ ReadsOwnWrites(last.store) /\ HasKey(cur, "expires")) =>
    LET sealed == [key \in Keys |-> ToJSON(cur[key])]
    IN /\ (last.outcome = "ok") = AllAccept(sealed)
       /\ last.outcome = "ok" => last.session = sealed
       /\ (last.outcome = "ok" /\ IsJSON(cur)) => last.session = cur

\* A get directly after a save returned the saved session, while a
\* validator was registered.
C6_Witness ==
  /\ GetAfterSave /\ ReadsOwnWrites(last.store) /\ HasKey(cur, "expires")
  /\ validators # <<>> /\ IsJSON(cur)
  /\ last.outcome = "ok" /\ last.session = cur

\* The last call is a get that came directly after a destroy on the same
\* store.
GetAfterDestroy == last.op = "get" /\ prev.op = "destroy"

\* C7 as stated: after a destroy on a store, the following get on that store
\* returns NoCookie.
C7_DestroyThenGet ==
  (GetAfterDestroy /\ sessionSecret # NoSecret) => last.outcome = "NoCookie"

\* A destroy step on a store whose session cookie is already absent.
DestroyOfAbsent ==
  last'.op = "destroy" /\ ~cookies[WriteJar(last'.store)].present

\* C7 amended: on a store that reads its own writes, the get that follows a
\* destroy returns NoCookie; on every store a destroy leaves the jar it
\* writes without a session cookie, and the destroy of an absent cookie
\* (so also a repeated destroy) changes no jar.
C7_DestroyThenGetAmended ==
  /\ [](/\ (GetAfterDestroy /\ ReadsOwnWrites(last.store)
              /\ sessionSecret # NoSecret) => last.outcome = "NoCookie"
        /\ last.op = "destroy" => ~cookies[WriteJar(last.store)].present)
  /\ [][DestroyOfAbsent => cookies' = cookies]_vars

\* A get returned NoCookie directly after a destroy on a store that reads
\* its own writes, once a session had been created.
C7_Witness ==
  /\ GetAfterDestroy /\ ReadsOwnWrites(last.store)
  /\ sessionSecret # NoSecret /\ cur # NoSession
  /\ last.outcome = "NoCookie"

\* C8: the session create returns has the freshly generated id, a string
\* that is not empty, whatever the data and the plugins (so no two creates
\* return the same id).
C8_CreateHasFreshId ==
  last.op = "create" =>
    /\ last.session["id"] = Nanoid(nanoids)
    /\ last.session["id"].k = "str" /\ last.session["id"] # Str("")

\* The plugins of the list that have a create hook and stamp key `name`.
Stamping(extensions, name) ==
  {i \in DOMAIN extensions : extensions[i].name = name}

Highest(S) == CHOOSE i \in S : \A j \in S : j <= i

\* C9: create applies the create hooks in list order, each to the output of
\* the one before, skipping plugins without one: the result has the expires
\* of the last expires() of the list and the lastActive of idle(), each when
\* the list has one, the id, and every other field as the data gave it.
C9_CreateAppliesHooksInOrder ==
  last.op = "create" =>
    LET expiring == Stamping(last.plugins, "expires")
        idling == Stamping(last.plugins, "idle")
    IN /\ last.session["expires"] =
            IF expiring = {} THEN last.data["expires"]
            ELSE Num(now + last.plugins[Highest(expiring)].seconds * MsPerSecond)
       /\ last.session["lastActive"] =
            IF idling = {} THEN last.data["lastActive"] ELSE Num(now)
       /\ \A key \in Keys \ {"id", "expires", "lastActive"} :
            last.session[key] = last.data[key]
       /\ \A key \in Keys : HasKey(last.data, key) => HasKey(last.session, key)
       /\ HasKey(last.session, "id")

\* create(d, [expires(1), idle(1)]) on data with a user returned a session
\* with expires, lastActive and the user.
C9_Witness ==
  /\ last.op = "create"
  /\ last.plugins = <<Expires(1), Idle(1)>>
  /\ HasKey(last.data, "user")
  /\ last.session["expires"] = Num(now + MsPerSecond)
  /\ last.session["lastActive"] = Num(now)
  /\ last.session["user"] = last.data["user"]

\* The answers of the registered validators on the session the caller
\* holds, in registration order.
Answer(i) == CallValidator(validators[i].fn, cur, now)
NotTrue == {i \in DOMAIN validators : Answer(i) # "true"}
Lowest(S) == CHOOSE i \in S : \A j \in S : i <= j
IdsUpTo(n) == [i \in 1..n |-> validators[i].id]

\* C10 as stated: validate returns true if the registry is empty or every
\* validator accepts the session and false otherwise, and invokes no
\* validator after the first that returns false.
C10_ValidateAllOrFalse ==
  last.op = "validate" =>
    /\ last.outcome = IF AllAccept(cur) THEN "true" ELSE "false"
    /\ last.invoked = IdsUpTo(IF NotTrue = {} THEN Len(validators)
                              ELSE Lowest(NotTrue))

\* C10 amended: validate returns true if the registry is empty or every
\* validator accepts the session; otherwise it ends at the first validator,
\* in registration order, that does not return true, invoking none after
\* it: it returns false when that validator returned false, and throws what
\* that validator threw.
C10_ValidateAllOrFirstFailure ==
  last.op = "validate" =>
    /\ last.outcome = IF NotTrue = {} THEN "true" ELSE Answer(Lowest(NotTrue))
    /\ last.invoked = IdsUpTo(IF NotTrue = {} THEN Len(validators)
                              ELSE Lowest(NotTrue))

\* validate returned false at the first of two registered validators.
C10_Witness ==
  /\ last.op = "validate" /\ last.outcome = "false"
  /\ Len(validators) = 2 /\ Len(last.invoked) = 1

\* The session the touchers of the registry return one after the other,
\* each given what the one before returned.
RECURSIVE Returned(_, _, _, _)
Returned(registry, i, session, t) ==
  IF i > Len(registry) THEN session
  ELSE Returned(registry, i + 1, ToucherReturns(registry[i].fn, session, t), t)

\* C11: touch runs every registered toucher once, each on the session the
\* touchers before it produced, and returns the final session: the effect of
\* a toucher that mutates and of a toucher that returns a new session is
\* present in what touch returns.
C11_TouchReturnsFinalSession ==
  last.op = "touch" =>
    /\ last.invoked = [i \in DOMAIN touchListeners |-> touchListeners[i].id]
    /\ last.session = Returned(touchListeners, 1, last.data, now)

IdleOnly ==
  Len(touchListeners) = 1 /\ touchListeners[1].fn.name = "idle"

\* C12: with the touch hook of idle() as the only toucher, touch sets
\* lastActive to the current time and leaves id, expires and every other
\* field as they were.
C12_IdleTouchSetsLastActive ==
  (last.op = "touch" /\ IdleOnly) =>
    /\ last.session["lastActive"] = Num(now)
    /\ \A key \in Keys \ {"lastActive"} : last.session[key] = last.data[key]

\* A touch under the idle toucher alone moved lastActive of a session that
\* has an id and an expires.
C12_Witness ==
  /\ last.op = "touch" /\ IdleOnly
  /\ HasKey(last.data, "id") /\ HasKey(last.data, "expires")
  /\ HasKey(last.data, "lastActive")
  /\ last.data["lastActive"] # Num(now)
  /\ last.session["lastActive"] = Num(now)

\* The registry of a kind, and the registry without the entries of an id.
Registry(kind) ==
  CASE kind = "v" -> validators
    [] kind = "t" -> touchListeners
    [] OTHER -> <<>>
Without(registry, id) == SelectSeq(registry, LAMBDA entry : entry.id # id)

\* What a step that is a registration does: one entry more, at the end of
\* the registry of its kind, under an id no entry of either registry has,
\* which is the id returned with the prefix of the kind.
Registers(op, kind, registry, registryAfter) ==
  last'.op = op =>
    /\ Len(registryAfter) = Len(registry) + 1
    /\ SubSeq(registryAfter, 1, Len(registry)) = registry
    /\ last'.handle = Handle(kind, registryAfter[Len(registryAfter)].id)
    /\ last'.handle.id \notin RegistryIds(validators)
                              \cup RegistryIds(touchListeners)

\* What a step that is a removeListener does: of the registry the prefix
\* names, the entry of the id goes and the others stay, in their order; an
\* id the registry does not hold changes nothing.
Removes ==
  last'.op = "removeListener" =>
    LET handle == last'.handle
    IN /\ validators' = IF handle.kind = "v"
                         THEN Without(validators, handle.id) ELSE validators
       /\ touchListeners' = IF handle.kind = "t"
                             THEN Without(touchListeners, handle.id)
                             ELSE touchListeners
       /\ Len(validators') + Len(touchListeners')
            = Len(validators) + Len(touchListeners)
                - (IF handle.id \in RegistryIds(Registry(handle.kind))
                   THEN 1 ELSE 0)
       /\ last'.outcome = "ok"

\* C13: onValidate and onTouch each add one entry to their own registry and
\* return an id whose prefix tells the kind; removeListener(id) deletes the
\* entry the id was returned for, from the registry of that kind only, and
\* leaves the other registry and the other entries as they were; with an
\* unknown or already removed id it changes neither registry and raises no
\* error.
C13_RegistriesChangeByOneEntry ==
  [][/\ Registers("onValidate", "v", validators, validators')
     /\ last'.op = "onValidate" => touchListeners' = touchListeners
     /\ Registers("onTouch", "t", touchListeners, touchListeners')
     /\ last'.op = "onTouch" => validators' = validators
     /\ Removes]_vars

\* removeListener deleted one of two validators while a toucher was
\* registered.
C13_Witness ==
  /\ last.op = "removeListener" /\ last.wrote /\ last.handle.kind = "v"
  /\ Len(validators) = 1 /\ Len(touchListeners) >= 1

\* The sessions create returns for the data and plugins of SavedInputs, at
\* every time.
Sessions ==
  {CreateSession(Nanoid(1), input[1], input[2], t * MsPerSecond) :
     input \in SavedInputs, t \in 0..MaxSeconds}

\* The last call is the removeListener of the id that the onValidate
\* directly before it returned.
RemovedAfterOnValidate ==
  last.op = "removeListener" /\ prev.op = "onValidate"

Range(q) == {q[i] : i \in DOMAIN q}

\* C14: after id = onValidate(f) in a registry state R and removeListener(id)
\* validate returns, for every session, what it returned in R, and f is not
\* invoked by validate or get any more (a validate or a get invokes only
\* validators that are registered).
C14_RegisterRemoveRestores ==
  /\ RemovedAfterOnValidate =>
        /\ last.handle.id \notin RegistryIds(validators)
        /\ \A session \in Sessions :
             RunValidate(validators, session, now).result
               = RunValidate(prev.validators, session, now).result
  /\ (last.op = "validate" /\ prev.op = "onValidate") =>
        /\ last.outcome = RunValidate(prev.validators, cur, now).result
        /\ prev.handle.id \notin Range(last.invoked)
  /\ last.op \in {"validate", "get"} =>
        Range(last.invoked) \subseteq RegistryIds(validators)

\* A validate that returned true, invoking the validator that is left,
\* directly after another validator was registered and removed again.
C14_Witness ==
  /\ last.op = "validate" /\ prev.op = "onValidate"
  /\ prev.validators # <<>>
  /\ last.outcome = "true" /\ last.invoked # <<>>

\* The last call is a get, with the secret set, of a cookie that is as a
\* save sealed it.
GetOfSealed ==
  /\ last.op = "get" /\ sessionSecret # NoSecret /\ CryptoWorks(crypto)
  /\ CookieRead.present /\ CookieRead.value.intact

\* A step that is a setSessionSecret changes no jar and no registry.
SecretFrame ==
  last'.op = "setSessionSecret" =>
    /\ cookies' = cookies
    /\ validators' = validators /\ touchListeners' = touchListeners

OnMerged == last.store = "merged"

\* What a read of the request cookies gives.
RequestCookies == IF cookies["req"].present THEN <<cookies["req"]>> ELSE <<>>

\* C16: on the store of mergeCookies(req, res), get, getAll and has read the
\* request cookies only, and set and delete write the response cookies
\* only: a set or a delete (so also a save or a destroy) on the merged store
\* leaves the request cookies as they were, and a read (so also a
\* Session.get) gives what the request cookies hold, whatever the response
\* cookies hold.
C16_MergedReadsRequestWritesResponse ==
  /\ [](OnMerged =>
          /\ last.op \in {"store.get", "store.getAll"} =>
               last.read = RequestCookies
          /\ last.op = "store.has" =>
               last.outcome = IF cookies["req"].present THEN "true"
                              ELSE "false"
          /\ (last.op = "get" /\ sessionSecret # NoSecret) =>
               /\ (last.outcome = "NoCookie") = ~cookies["req"].present
               /\ last.outcome = "ok" =>
                    last.session = Unseal(cookies["req"].value))
  /\ [][(last'.store = "merged"
           /\ last'.op \in {"store.set", "store.delete", "save", "destroy"})
          => /\ cookies'["req"] = cookies["req"]
             /\ cookies'["own"] = cookies["own"]]_vars

\* has on the merged store returned false while the response cookies hold a
\* session cookie.
C16_Witness ==
  /\ OnMerged /\ last.op = "store.has" /\ last.outcome = "false"
  /\ cookies["res"].present

\* The session's time window has passed: its expires is not after now, or
\* its lastActive is a second or more ago.
WindowPassed(session) ==
  \/ HasKey(session, "expires") /\ ~Gt(session["expires"], now)
  \/ HasKey(session, "lastActive")
       /\ ~Gt(Plus(session["lastActive"], MsPerSecond), now)

OnlyValidator(name) ==
  Len(validators) = 1 /\ validators[1].fn.name = name

\* C17: create does not register the hooks of its plugins: it leaves both
\* registries as they were, so with no validator registered validate accepts
\* every session, also one whose expires or idle window has passed, and
\* with no toucher registered touch returns the session as it was; once the
\* caller has registered the validate hook of expires or idle, validate
\* accepts the session only within its window.
C17_CreateRegistersNothing ==
  /\ [](/\ (last.op = "validate" /\ validators = <<>>) =>
             last.outcome = "true"
        /\ (last.op = "touch" /\ touchListeners = <<>>) =>
             last.session = last.data
        /\ (last.op = "validate" /\ OnlyValidator("expires")) =>
             (last.outcome = "true") = Gt(cur["expires"], now)
        /\ (last.op = "validate" /\ OnlyValidator("idle")) =>
             (last.outcome = "true")
               = Gt(Plus(cur["lastActive"],
                         validators[1].fn.seconds * MsPerSecond), now))
  /\ [][last'.op = "create" =>
          (validators' = validators /\ touchListeners' = touchListeners)]_vars

\* With nothing registered, validate accepted a session created with
\* expires and idle after both windows had passed.
C17_Witness ==
  /\ last.op = "validate" /\ validators = <<>> /\ touchListeners = <<>>
  /\ HasKey(cur, "expires") /\ HasKey(cur, "lastActive")
  /\ ~Gt(cur["expires"], now)
  /\ ~Gt(Plus(cur["lastActive"], MsPerSecond), now)
  /\ last.outcome = "true"

\* C19: get is read-only: whatever its outcome, a get leaves the jars, both
\* registries, the secret and the crypto provider as they were (it does not
\* delete a cookie it could not open or that was rejected, and does not
\* touch the session), so a get directly after a get on the same store
\* returns what the first returned.
C19_GetIsReadOnly ==
  [][/\ last'.op = "get" =>
          /\ cookies' = cookies
          /\ validators' = validators /\ touchListeners' = touchListeners
          /\ sessionSecret' = sessionSecret /\ crypto' = crypto
          /\ cur' = cur
     /\ (last.op = "get" /\ last'.op = "get" /\ last'.store = last.store) =>
          (last'.outcome = last.outcome /\ last'.session = last.session)]_vars

\* A get returned ValidationFailed and the cookie it read is still there.
C19_Witness ==
  /\ last.op = "get" /\ last.outcome = "ValidationFailed"
  /\ CookieRead.present /\ CookieRead.value.intact

\* The jars a store reads and writes.
JarsOf(store) == {ReadJar(store), WriteJar(store)}

\* The last call is a get or a save that resumed from its await.
ResumedCall(op) == last.op = op /\ prev.op = "suspended"

\* C18: with the secret, the crypto provider and the registries fixed, calls
\* on distinct stores that suspend and resume in any order are independent:
\* a get returns what a get alone returns on its store, and leaves the
\* store as it was when it started; a save leaves on its store the cookie
\* a save alone sets, and the rest of the store as it was; a destroy leaves
\* its store without the cookie; and no step of a call changes a jar of
\* another store.
C18_CallsOnDistinctStoresIndependent ==
  /\ [](/\ (last.op = "get" /\ last.outcome # "pending") =>
             last = GetCall(last.store, cookies[ReadJar(last.store)],
                            sessionSecret, crypto, validators, now)
        /\ ResumedCall("get") =>
             \A jar \in JarsOf(last.store) : cookies[jar] = prev.jars[jar]
        /\ ResumedCall("save") =>
             /\ last.outcome = IF CryptoWorks(crypto) THEN "ok" ELSE "threw"
             /\ last.outcome = "ok" =>
                  cookies[WriteJar(last.store)]
                    = SavedCookie(last.session, sessionSecret)
             /\ \A jar \in JarsOf(last.store) \ {WriteJar(last.store)} :
                  cookies[jar] = prev.jars[jar]
        /\ last.op = "destroy" => ~cookies[WriteJar(last.store)].present)
  /\ [][last'.op \in {"get", "save", "destroy"} =>
          \A jar \in Jars \ JarsOf(last'.store) :
            cookies'[jar] = cookies[jar]]_vars

\* A save resumed and set its cookie while a get on the other store was
\* suspended.
C18_Witness ==
  /\ ResumedCall("save") /\ last.outcome = "ok"
  /\ \E store \in Stores \ {last.store} :
       pending[store] # NotPending /\ pending[store].op = "get"

\* The token of the cookie opens with what the call was started under.
OpenedAtStart ==
  /\ CryptoWorks(prev.provider)
  /\ prev.cookie.value.intact /\ prev.cookie.value.key = prev.secret

\* C20: a get or a save uses the secret and the crypto provider that were
\* set when it was called, whatever setSessionSecret and setCrypto did
\* while it was suspended: the get opens the cookie or not under those, and
\* the save seals, or throws, under those; the validators that decide the
\* get are those registered when it resumes.
C20_ConfigurationReadAtCall ==
  /\ ResumedCall("get") =>
       /\ ~OpenedAtStart => last.outcome = "InvalidCookie"
       /\ OpenedAtStart =>
            LET session == Unseal(prev.cookie.value)
            IN /\ (last.outcome = "ok") = AllAccept(session)
               /\ last.outcome = "ok" => last.session = session
               /\ last.outcome = "ValidationFailed" => SomeRejects(session)
               /\ last.outcome = "InvalidCookie" => SomeThrows(session)
  /\ ResumedCall("save") =>
       /\ last.outcome = IF CryptoWorks(prev.provider) THEN "ok" ELSE "threw"
       /\ last.outcome = "ok" =>
            cookies[WriteJar(last.store)]
              = Cookie([payload |-> Stringify(prev.session),
                        key |-> prev.secret, intact |-> TRUE])
       /\ last.outcome = "threw" => cookies = prev.jars

\* A get that started under the secret of the cookie, with no validator
\* registered, returned ValidationFailed: while it was suspended the secret
\* was changed and a validator registered.
C20_Witness ==
  /\ ResumedCall("get") /\ OpenedAtStart
  /\ sessionSecret # prev.secret /\ sessionSecret # NoSecret
  /\ prev.validators = <<>> /\ validators # <<>>
  /\ last.outcome = "ValidationFailed"

====
